---------------------------- MODULE Spec2Model ----------------------------
(***************************************************************************)
(* git-stats: per-author line ownership of a repository snapshot.         *)
(* Model of src/main.rs: the sequential run (single_threaded) and the     *)
(* concurrent pipeline (multi_threaded): one producer task walking the    *)
(* tree, `workers` worker tasks blaming files, one accumulator task, all  *)
(* spawned on a tokio runtime whose worker threads they occupy while they *)
(* run or block in a crossbeam send/recv, and the caller waiting for the  *)
(* published table.                                                       *)
(***************************************************************************)
EXTENDS Integers, Sequences, FiniteSets, TLC

(***************************************************************************)
(* Bounds of the model.                                                    *)
(***************************************************************************)
\* longest tree (number of entries of the snapshot, directories included)
MaxEntries == 3
\* largest value of args.workers
MaxWorkers == 2
\* largest number of worker threads of the runtime (cores of the machine)
MaxCores == 3
\* capacity of the work queue, bounded(100) in the source, scaled down
PoolCap == 2
\* capacity of the result queue, bounded(100) in the source, scaled down
AccCap == 2
\* the attempts argument of retry, 20 in the source, scaled down
RetryAttempts == 2
\* most messages sent to the accumulator when it is run alone
MaxInjected == 3

\* largest value of a u8 (retry's attempts)
U8Max == 255
\* the attempts the worker passes to retry
WorkerAttempts == 20

(***************************************************************************)
(* Authors and attribution maps (HBlames = HashMap<String, usize>).        *)
(* A map is a function from the set of its keys to line counts.            *)
(***************************************************************************)
Authors == <<"alice", "bob", "carol">>

\* position of an author in the lexicographic order of the author strings
AuthorRank(a) == CHOOSE i \in 1..Len(Authors) : Authors[i] = a

AuthorLeq(a, b) == AuthorRank(a) <= AuthorRank(b)

EmptyMap == [a \in {} |-> 0]

Blob(n, m) == [kind |-> "Blob", name |-> n, blameOk |-> TRUE, blame |-> m]

\* a file the blame oracle fails on (repo.blame_file returns Err)
Unblamable(n) == [kind |-> "Blob", name |-> n, blameOk |-> FALSE, blame |-> EmptyMap]

Dir(n) == [kind |-> "Tree", name |-> n, blameOk |-> FALSE, blame |-> EmptyMap]

\* the snapshots the runs are made on: the entries of HEAD's tree in pre-order
RepoScenario ==
    << Blob("A", "alice" :> 10),
       Blob("B", ("bob" :> 5) @@ ("alice" :> 2)),
       Blob("C", "alice" :> 1),
       Blob("D", "carol" :> 13) >>

RepoTies ==
    << Dir("src"),
       Blob("src/x", "alice" :> 5),
       Blob("src/y", "bob" :> 5),
       Blob("src/z", "carol" :> 5) >>

RepoBinary ==
    << Unblamable("logo.png"),
       Blob("README", "bob" :> 1),
       Blob("LICENSE", "alice" :> 1),
       Dir("doc") >>

Repos == {RepoScenario, RepoTies, RepoBinary}

Trees == { SubSeq(r, 1, n) : r \in Repos, n \in 0..MaxEntries }

VARIABLES
    tree,       \* the entries of the snapshot, in pre-order
    fault,      \* "none", "open" (Repository::open fails), "head" (get_tree fails)
    single,     \* args.single
    workers,    \* args.workers
    cores,      \* worker threads of the runtime
    ppc,        \* producer task: "unspawned", "queued", "walk", "done", "panicked"
    walkPos,    \* next entry the tree walk visits
    cnt,        \* get_tree's local cnt
    cntClosure, \* the copy of cnt the move closure owns
    workQ,      \* to_pool / for_pool
    resultQ,    \* to_acc / for_acc
    printQ,     \* to_print / for_print
    ct,         \* the CancellationToken's flag
    wpc,        \* worker tasks
    witem,      \* the path a worker received (m)
    wbm,        \* the map a worker is delivering (bm)
    attempts,   \* retry's attempts
    apc,        \* accumulator task: "unspawned", "queued", "loop", "publish", "done"
    hm,         \* the accumulator's tally
    count,      \* the accumulator's count
    c,          \* the accumulator's c: <<>> is None, <<i>> is Some(i)
    mpc,        \* the caller: "single", "recv", "returned", "failed", "panicked"
    result,     \* the Blames the run returned
    sentCounts, \* history: Count messages sent, in order
    enqueued,   \* history: number of paths sent to the work queue
    partials,   \* history: number of Blame messages the accumulator folded
    polls,      \* history: per worker, is_cancelled() calls made after cancel()
    lateRecv,   \* history: per worker, paths received after cancel()
    taken,      \* history: per path, times a worker received it
    processed,  \* history: number of paths blame_file returned a map for
    delivered,  \* history: number of Blame messages put on the result queue
    gaveUp,     \* history: per worker, sends given up with attempts == 0
    folded,     \* history: per path, times its Blame was folded into hm
    rpc,        \* retry alone: "off", "call", "sleep", "ok", "err"
    rInit,      \* retry alone: the attempts argument
    rAttempts,  \* retry alone: attempts (u8)
    rCalls,     \* retry alone: history, calls of f
    rWaits,     \* retry alone: history, sleeps
    rFails,     \* retry alone: history, calls of f that returned Err
    injected    \* accumulator alone: messages sent to it so far

vars == << tree, fault, single, workers, cores, ppc, walkPos, cnt, cntClosure,
           workQ, resultQ, printQ, ct, wpc, witem, wbm, attempts, apc, hm,
           count, c, mpc, result, sentCounts, enqueued, partials, polls,
           lateRecv, taken, processed, delivered, gaveUp, folded, rpc, rInit,
           rAttempts, rCalls, rWaits, rFails, injected >>

Workers == 1..workers

NoPath == "-"

\* every path of the snapshots, and the path of no file
Paths == UNION { { r[i].name : i \in DOMAIN r } : r \in Repos } \cup {NoPath}


(***************************************************************************)
(* Pure functions of the source.                                           *)
(***************************************************************************)
Get(m, a) == IF a \in DOMAIN m THEN m[a] ELSE 0

\* blame_fold: for each (author, lines) of blame, *entry(author).or_insert(0) += lines
blame_fold(m, blame) ==
    [a \in (DOMAIN m) \cup (DOMAIN blame) |-> Get(m, a) + Get(blame, a)]

\* a fold that adds a map twice
blame_acc_twice(m, blame) ==
    [a \in (DOMAIN m) \cup (DOMAIN blame) |-> Get(m, a) + 2 * Get(blame, a)]

\* blame_acc: the same merge, done in place on the accumulator's map
blame_acc(m, blame) ==
    [a \in (DOMAIN m) \cup (DOMAIN blame) |-> Get(m, a) + Get(blame, a)]

\* the orders in which a HashMap with these keys may be iterated
IterOrders(m) ==
    { o \in [1..Cardinality(DOMAIN m) -> DOMAIN m] :
        \A i, j \in DOMAIN o : i # j => o[i] # o[j] }

\* where a stable sort by rhs.lines.cmp(&lhs.lines) puts b among the elements
\* that came before it: after every element with at least as many lines
RECURSIVE InsertByLines(_, _)
InsertByLines(sorted, b) ==
    IF sorted = <<>> THEN << b >>
    ELSE IF Head(sorted).lines >= b.lines
         THEN << Head(sorted) >> \o InsertByLines(Tail(sorted), b)
         ELSE << b >> \o sorted

RECURSIVE SortByLines(_, _)
SortByLines(blames, done) ==
    IF blames = <<>> THEN done
    ELSE SortByLines(Tail(blames), InsertByLines(done, Head(blames)))

\* hm_into_vec: collect the entries in iteration order, then sort_by (stable)
\* on lines, descending
hm_into_vec(authors, order) ==
    LET blames == [i \in DOMAIN order |->
                      [author |-> order[i], lines |-> authors[order[i]]]]
    IN SortByLines(blames, <<>>)

\* the entry of the snapshot a path names
EntryOf(path) == CHOOSE e \in { tree[i] : i \in DOMAIN tree } : e.name = path

\* blame_file: Ok(map) or Err
BlameOk(path) == EntryOf(path).blameOk

blame_file(path) == EntryOf(path).blame

IsBlob(e) == e.kind = "Blob"

\* the paths get_tree hands to its updater, in order
Files == LET blobs == SelectSeq(tree, IsBlob)
         IN [i \in DOMAIN blobs |-> blobs[i].name]

\* files.iter().map(blame_file).fold(HashMap::new(), &blame_fold)
RECURSIVE FoldFiles(_, _)
FoldFiles(files, acc) ==
    IF files = <<>> THEN acc
    ELSE FoldFiles(Tail(files), blame_fold(acc, blame_file(Head(files))))

\* CancellationToken::is_cancelled
is_cancelled == ct

\* a cancel that flips the flag
cancelToggle(flag) == ~flag

\* CancellationToken::cancel: the value it stores in a flag
cancel(flag) == TRUE

\* a retry that gives up one attempt early
RetryGiveUpAtOne(a) == a = 1

\* a retry that never gives up
RetryNeverGiveUp(a) == FALSE

\* retry: if attempts == 0 { return Err(e) }
RetryGiveUp(a) == a = 0

\* retry: attempts -= 1 on a u8
Dec8(a) == (a + U8Max) % (U8Max + 1)

\* retry and the accumulator are not run on their own
HarnessOff ==
    /\ rpc = "off"
    /\ rInit = 0
    /\ rAttempts = 0
    /\ rCalls = 0
    /\ rWaits = 0
    /\ rFails = 0
    /\ injected = 0

(***************************************************************************)
(* The initial state: arguments parsed, the snapshot fixed; in the         *)
(* concurrent mode the three kinds of task are spawned and none has run.   *)
(***************************************************************************)
Init ==
    /\ tree \in Trees
    /\ fault \in {"none", "open", "head"}
    /\ single \in BOOLEAN
    /\ IF single
       THEN workers = 1 /\ cores = 1
       ELSE workers \in 1..MaxWorkers /\ cores \in 1..MaxCores
    /\ ppc = IF single THEN "unspawned" ELSE "queued"
    /\ apc = IF single THEN "unspawned" ELSE "queued"
    /\ wpc = [w \in 1..workers |-> IF single THEN "unspawned" ELSE "queued"]
    /\ mpc = IF single THEN "single" ELSE "recv"
    /\ walkPos = 1
    /\ cnt = 0
    /\ cntClosure = 0
    /\ workQ = <<>>
    /\ resultQ = <<>>
    /\ printQ = <<>>
    /\ ct = FALSE
    /\ witem = [w \in 1..workers |-> NoPath]
    /\ wbm = [w \in 1..workers |-> EmptyMap]
    /\ attempts = [w \in 1..workers |-> 0]
    /\ hm = EmptyMap
    /\ count = 0
    /\ c = <<>>
    /\ result = <<>>
    /\ sentCounts = <<>>
    /\ enqueued = 0
    /\ partials = 0
    /\ polls = [w \in 1..workers |-> 0]
    /\ lateRecv = [w \in 1..workers |-> 0]
    /\ taken = [p \in Paths |-> 0]
    /\ processed = 0
    /\ delivered = 0
    /\ gaveUp = [w \in 1..workers |-> 0]
    /\ folded = [p \in Paths |-> 0]
    /\ HarnessOff

\* the snapshot and the arguments never change, and the pipeline touches
\* nothing of retry run alone or of the messages sent to the accumulator alone
Fixed == UNCHANGED << tree, fault, single, workers, cores, rpc, rInit,
                      rAttempts, rCalls, rWaits, rFails, injected >>

(***************************************************************************)
(* The runtime: a task that runs, or blocks in send/recv, holds one of the *)
(* runtime's worker threads; a task that awaits the timer holds none.      *)
(***************************************************************************)
OnThread(pc) == pc \in {"walk", "check", "recv", "blame", "send", "loop", "publish"}

Busy == (IF OnThread(ppc) THEN 1 ELSE 0)
        + Cardinality({ w \in Workers : OnThread(wpc[w]) })
        + (IF OnThread(apc) THEN 1 ELSE 0)

\* the runtime is dropped, with the channels, when multi_threaded returns
RuntimeAlive == mpc = "recv"

ThreadFree == RuntimeAlive /\ Busy < cores

(***************************************************************************)
(* single_threaded                                                         *)
(***************************************************************************)
SingleThreaded ==
    /\ mpc = "single"
    /\ IF fault # "none"
       THEN \* Repository::open(path)? or get_tree(..)? returns the error
            /\ mpc' = "failed"
            /\ result' = result
       ELSE IF \E i \in DOMAIN Files : ~BlameOk(Files[i])
       THEN \* expect("unblamable") panics
            /\ mpc' = "panicked"
            /\ result' = result
       ELSE /\ mpc' = "returned"
            /\ \E order \in IterOrders(FoldFiles(Files, EmptyMap)) :
                  result' = hm_into_vec(FoldFiles(Files, EmptyMap), order)
    /\ UNCHANGED << taken, processed, delivered, gaveUp, folded >>
    /\ Fixed
    /\ UNCHANGED << ppc, walkPos, cnt, cntClosure, workQ, resultQ, printQ, ct,
                    wpc, witem, wbm, attempts, apc, hm, count, c, sentCounts,
                    enqueued, partials, polls, lateRecv >>

(***************************************************************************)
(* multi_threaded: the producer task                                       *)
(***************************************************************************)
\* the task gets a thread; Repository::open(path).unwrap(), then get_tree's
\* repo.head()?.peel_to_tree()? whose error the caller unwraps
ProducerStart ==
    /\ ppc = "queued"
    /\ ThreadFree
    /\ ppc' = IF fault = "none" THEN "walk" ELSE "panicked"
    /\ UNCHANGED << taken, processed, delivered, gaveUp, folded >>
    /\ Fixed
    /\ UNCHANGED << walkPos, cnt, cntClosure, workQ, resultQ, printQ, ct, wpc,
                    witem, wbm, attempts, apc, hm, count, c, mpc, result,
                    sentCounts, enqueued, partials, polls, lateRecv >>

\* the walk callback on an entry that is no blob
WalkSkip ==
    /\ ppc = "walk"
    /\ walkPos <= Len(tree)
    /\ ~IsBlob(tree[walkPos])
    /\ walkPos' = walkPos + 1
    /\ UNCHANGED << taken, processed, delivered, gaveUp, folded >>
    /\ Fixed
    /\ UNCHANGED << ppc, cnt, cntClosure, workQ, resultQ, printQ, ct, wpc,
                    witem, wbm, attempts, apc, hm, count, c, mpc, result,
                    sentCounts, enqueued, partials, polls, lateRecv >>

\* the walk callback on a blob: the move closure adds one to its own copy of
\* cnt and the updater sends the path, blocking while the work queue is full
WalkEmit ==
    /\ ppc = "walk"
    /\ walkPos <= Len(tree)
    /\ IsBlob(tree[walkPos])
    /\ Len(workQ) < PoolCap
    /\ cntClosure' = cntClosure + 1
    /\ workQ' = Append(workQ, tree[walkPos].name)
    /\ enqueued' = enqueued + 1
    /\ walkPos' = walkPos + 1
    /\ UNCHANGED << taken, processed, delivered, gaveUp, folded >>
    /\ Fixed
    /\ UNCHANGED << ppc, cnt, resultQ, printQ, ct, wpc, witem, wbm, attempts,
                    apc, hm, count, c, mpc, result, sentCounts, partials,
                    polls, lateRecv >>

\* a producer that does not wait for the walk to end
WalkDoneAtOnce == TRUE

\* head.walk has returned
WalkDone == walkPos > Len(tree)

\* get_tree returns Ok(cnt); to_acc.send(BlameMessage::Count(cnt)), blocking
\* while the result queue is full; the task ends
ProducerSendCount ==
    /\ ppc = "walk"
    /\ WalkDone
    /\ Len(resultQ) < AccCap
    /\ resultQ' = Append(resultQ, [type |-> "Count", n |-> cnt, hm |-> EmptyMap, of |-> NoPath])
    /\ sentCounts' = Append(sentCounts, cnt)
    /\ ppc' = "done"
    /\ UNCHANGED << taken, processed, delivered, gaveUp, folded >>
    /\ Fixed
    /\ UNCHANGED << walkPos, cnt, cntClosure, workQ, printQ, ct, wpc, witem,
                    wbm, attempts, apc, hm, count, c, mpc, result, enqueued,
                    partials, polls, lateRecv >>

(***************************************************************************)
(* multi_threaded: the worker tasks                                        *)
(***************************************************************************)
\* the task gets a thread; Repository::open(path).unwrap()
WorkerStart(w) ==
    /\ wpc[w] = "queued"
    /\ ThreadFree
    /\ wpc' = [wpc EXCEPT ![w] = IF fault = "open" THEN "panicked" ELSE "check"]
    /\ UNCHANGED << taken, processed, delivered, gaveUp, folded >>
    /\ Fixed
    /\ UNCHANGED << ppc, walkPos, cnt, cntClosure, workQ, resultQ, printQ, ct,
                    witem, wbm, attempts, apc, hm, count, c, mpc, result,
                    sentCounts, enqueued, partials, polls, lateRecv >>

\* a worker loop that never looks at the flag
WorkerLoopForever == TRUE

\* while !ct.is_cancelled()
WorkerLoopCond == ~is_cancelled

\* the loop head: the flag is polled, the task ends when it is set
WorkerCheck(w) ==
    /\ wpc[w] = "check"
    /\ wpc' = [wpc EXCEPT ![w] = IF WorkerLoopCond THEN "recv" ELSE "done"]
    /\ polls' = [polls EXCEPT ![w] = IF ct THEN @ + 1 ELSE @]
    /\ UNCHANGED << taken, processed, delivered, gaveUp, folded >>
    /\ Fixed
    /\ UNCHANGED << ppc, walkPos, cnt, cntClosure, workQ, resultQ, printQ, ct,
                    witem, wbm, attempts, apc, hm, count, c, mpc, result,
                    sentCounts, enqueued, partials, lateRecv >>

\* for_pool.recv() returns a path; it blocks while the queue is empty
WorkerRecv(w) ==
    /\ wpc[w] = "recv"
    /\ workQ # <<>>
    /\ witem' = [witem EXCEPT ![w] = Head(workQ)]
    /\ workQ' = Tail(workQ)
    /\ wpc' = [wpc EXCEPT ![w] = "blame"]
    /\ lateRecv' = [lateRecv EXCEPT ![w] = IF ct THEN @ + 1 ELSE @]
    /\ taken' = [taken EXCEPT ![Head(workQ)] = @ + 1]
    /\ UNCHANGED << processed, delivered, gaveUp, folded >>
    /\ Fixed
    /\ UNCHANGED << ppc, walkPos, cnt, cntClosure, resultQ, printQ, ct, wbm,
                    attempts, apc, hm, count, c, mpc, result, sentCounts,
                    enqueued, partials, polls >>

\* for_pool.recv() on the empty queue once every sender is dropped (the
\* producer's with its task, the caller's on return): Err, unwrap panics
WorkerRecvClosed(w) ==
    /\ wpc[w] = "recv"
    /\ workQ = <<>>
    /\ mpc = "returned"
    /\ ppc \in {"done", "panicked"}
    /\ wpc' = [wpc EXCEPT ![w] = "panicked"]
    /\ UNCHANGED << taken, processed, delivered, gaveUp, folded >>
    /\ Fixed
    /\ UNCHANGED << ppc, walkPos, cnt, cntClosure, workQ, resultQ, printQ, ct,
                    witem, wbm, attempts, apc, hm, count, c, mpc, result,
                    sentCounts, enqueued, partials, polls, lateRecv >>

\* blame_file(&repo, m).unwrap(): the map, or a panic that ends the task;
\* then retry is entered with its attempts
WorkerBlame(w) ==
    /\ wpc[w] = "blame"
    /\ IF BlameOk(witem[w])
       THEN /\ wbm' = [wbm EXCEPT ![w] = blame_file(witem[w])]
            /\ attempts' = [attempts EXCEPT ![w] = RetryAttempts]
            /\ wpc' = [wpc EXCEPT ![w] = "send"]
       ELSE /\ wpc' = [wpc EXCEPT ![w] = "panicked"]
            /\ UNCHANGED << wbm, attempts >>
    /\ processed' = IF BlameOk(witem[w]) THEN processed + 1 ELSE processed
    /\ UNCHANGED << taken, delivered, gaveUp, folded >>
    /\ Fixed
    /\ UNCHANGED << ppc, walkPos, cnt, cntClosure, workQ, resultQ, printQ, ct,
                    witem, apc, hm, count, c, mpc, result, sentCounts,
                    enqueued, partials, polls, lateRecv >>

\* for_acc lives in the accumulator's task and is dropped when the task ends
ReceiverDropped == apc = "done"

\* retry: f() = to_acc.send(bm.clone()) is Ok; send blocks while the queue is
\* full and its receiver lives
WorkerSendOk(w) ==
    /\ wpc[w] = "send"
    /\ ~ReceiverDropped
    /\ Len(resultQ) < AccCap
    /\ resultQ' = Append(resultQ, [type |-> "Blame", n |-> 0, hm |-> wbm[w],
                                 of |-> witem[w]])
    /\ wpc' = [wpc EXCEPT ![w] = "check"]
    /\ delivered' = delivered + 1
    /\ UNCHANGED << taken, processed, gaveUp, folded >>
    /\ Fixed
    /\ UNCHANGED << ppc, walkPos, cnt, cntClosure, workQ, printQ, ct, witem,
                    wbm, attempts, apc, hm, count, c, mpc, result, sentCounts,
                    enqueued, partials, polls, lateRecv >>

\* retry: f() is Err (the receiver is gone) and attempts are left:
\* attempts -= 1, then sleep(interval).await gives the thread back
WorkerSendRetry(w) ==
    /\ wpc[w] = "send"
    /\ ReceiverDropped
    /\ ~RetryGiveUp(attempts[w])
    /\ attempts' = [attempts EXCEPT ![w] = Dec8(@)]
    /\ wpc' = [wpc EXCEPT ![w] = "sleep"]
    /\ UNCHANGED << taken, processed, delivered, gaveUp, folded >>
    /\ Fixed
    /\ UNCHANGED << ppc, walkPos, cnt, cntClosure, workQ, resultQ, printQ, ct,
                    witem, wbm, apc, hm, count, c, mpc, result, sentCounts,
                    enqueued, partials, polls, lateRecv >>

\* a worker that ends its task when retry returns Err
AfterRetryErrClose == "done"

\* if retry_result.is_err() { println!(..) }: the loop goes on at its head
AfterRetryErr == "check"

\* retry: f() is Err and attempts == 0: retry returns Err, the worker prints
\* "closing worker, retries exceeded" and goes back to the loop head
WorkerSendGiveUp(w) ==
    /\ wpc[w] = "send"
    /\ ReceiverDropped
    /\ RetryGiveUp(attempts[w])
    /\ wpc' = [wpc EXCEPT ![w] = AfterRetryErr]
    /\ gaveUp' = [gaveUp EXCEPT ![w] = @ + 1]
    /\ UNCHANGED << taken, processed, delivered, folded >>
    /\ Fixed
    /\ UNCHANGED << ppc, walkPos, cnt, cntClosure, workQ, resultQ, printQ, ct,
                    witem, wbm, attempts, apc, hm, count, c, mpc, result,
                    sentCounts, enqueued, partials, polls, lateRecv >>

\* the interval has passed and a thread takes the task up again
WorkerWake(w) ==
    /\ wpc[w] = "sleep"
    /\ ThreadFree
    /\ wpc' = [wpc EXCEPT ![w] = "send"]
    /\ UNCHANGED << taken, processed, delivered, gaveUp, folded >>
    /\ Fixed
    /\ UNCHANGED << ppc, walkPos, cnt, cntClosure, workQ, resultQ, printQ, ct,
                    witem, wbm, attempts, apc, hm, count, c, mpc, result,
                    sentCounts, enqueued, partials, polls, lateRecv >>

(***************************************************************************)
(* multi_threaded: the accumulator task                                    *)
(***************************************************************************)
AccStart ==
    /\ apc = "queued"
    /\ ThreadFree
    /\ apc' = "loop"
    /\ UNCHANGED << taken, processed, delivered, gaveUp, folded >>
    /\ Fixed
    /\ UNCHANGED << ppc, walkPos, cnt, cntClosure, workQ, resultQ, printQ, ct,
                    wpc, witem, wbm, attempts, hm, count, c, mpc, result,
                    sentCounts, enqueued, partials, polls, lateRecv >>

\* while c.is_none() || count < c.unwrap()
AccLoopCond == IF c = <<>> THEN TRUE ELSE count < c[1]

\* one turn of the loop: for_acc.recv() blocks while the queue is empty; a
\* Count sets c, a Blame is folded into hm; count += 1 for either
AccRecv ==
    /\ apc = "loop"
    /\ AccLoopCond
    /\ resultQ # <<>>
    /\ LET msg == Head(resultQ) IN
         IF msg.type = "Count"
         THEN /\ c' = << msg.n >>
              /\ UNCHANGED << hm, partials >>
         ELSE /\ hm' = blame_acc(hm, msg.hm)
              /\ partials' = partials + 1
              /\ c' = c
    /\ resultQ' = Tail(resultQ)
    /\ count' = count + 1
    /\ folded' = IF Head(resultQ).type = "Blame"
                 THEN [folded EXCEPT ![Head(resultQ).of] = @ + 1]
                 ELSE folded
    /\ UNCHANGED << taken, processed, delivered, gaveUp >>
    /\ Fixed
    /\ UNCHANGED << ppc, walkPos, cnt, cntClosure, workQ, printQ, ct, wpc,
                    witem, wbm, attempts, apc, mpc, result, sentCounts,
                    enqueued, polls, lateRecv >>

\* the loop is left: ct.cancel()
AccCancel ==
    /\ apc = "loop"
    /\ ~AccLoopCond
    /\ ct' = cancel(ct)
    /\ apc' = "publish"
    /\ UNCHANGED << taken, processed, delivered, gaveUp, folded >>
    /\ Fixed
    /\ UNCHANGED << ppc, walkPos, cnt, cntClosure, workQ, resultQ, printQ, wpc,
                    witem, wbm, attempts, hm, count, c, mpc, result,
                    sentCounts, enqueued, partials, polls, lateRecv >>

\* to_print.send(hm_into_vec(&hm)); the task ends and drops for_acc
AccPublish ==
    /\ apc = "publish"
    /\ Len(printQ) < 1
    /\ \E order \in IterOrders(hm) :
          printQ' = << hm_into_vec(hm, order) >>
    /\ apc' = "done"
    /\ UNCHANGED << taken, processed, delivered, gaveUp, folded >>
    /\ Fixed
    /\ UNCHANGED << ppc, walkPos, cnt, cntClosure, workQ, resultQ, ct, wpc,
                    witem, wbm, attempts, hm, count, c, mpc, result,
                    sentCounts, enqueued, partials, polls, lateRecv >>

(***************************************************************************)
(* multi_threaded: the caller                                              *)
(***************************************************************************)
\* Ok(for_print.recv().unwrap()): blocks until the table is published, then
\* the function returns and drops its channel ends and the runtime
MainRecv ==
    /\ mpc = "recv"
    /\ printQ # <<>>
    /\ result' = Head(printQ)
    /\ printQ' = Tail(printQ)
    /\ mpc' = "returned"
    /\ UNCHANGED << taken, processed, delivered, gaveUp, folded >>
    /\ Fixed
    /\ UNCHANGED << ppc, walkPos, cnt, cntClosure, workQ, resultQ, ct, wpc,
                    witem, wbm, attempts, apc, hm, count, c, sentCounts,
                    enqueued, partials, polls, lateRecv >>

Next ==
    \/ SingleThreaded
    \/ ProducerStart
    \/ WalkSkip
    \/ WalkEmit
    \/ ProducerSendCount
    \/ \E w \in Workers : WorkerStart(w)
    \/ \E w \in Workers : WorkerCheck(w)
    \/ \E w \in Workers : WorkerRecv(w)
    \/ \E w \in Workers : WorkerRecvClosed(w)
    \/ \E w \in Workers : WorkerBlame(w)
    \/ \E w \in Workers : WorkerSendOk(w)
    \/ \E w \in Workers : WorkerSendRetry(w)
    \/ \E w \in Workers : WorkerSendGiveUp(w)
    \/ \E w \in Workers : WorkerWake(w)
    \/ AccStart
    \/ AccRecv
    \/ AccCancel
    \/ AccPublish
    \/ MainRecv

Spec == Init /\ [][Next]_vars

\* every task that can take a step eventually takes one, and a thread that is
\* free eventually takes up a task that waits for one
Fairness ==
    /\ WF_vars(ProducerStart)
    /\ WF_vars(WalkSkip)
    /\ WF_vars(WalkEmit)
    /\ WF_vars(ProducerSendCount)
    /\ \A w \in 1..MaxWorkers :
          /\ WF_vars(w \in Workers /\ WorkerStart(w))
          /\ WF_vars(w \in Workers /\ WorkerCheck(w))
          /\ WF_vars(w \in Workers /\ WorkerRecv(w))
          /\ WF_vars(w \in Workers /\ WorkerRecvClosed(w))
          /\ WF_vars(w \in Workers /\ WorkerBlame(w))
          /\ WF_vars(w \in Workers /\ WorkerSendOk(w))
          /\ WF_vars(w \in Workers /\ WorkerSendRetry(w))
          /\ WF_vars(w \in Workers /\ WorkerSendGiveUp(w))
          /\ WF_vars(w \in Workers /\ WorkerWake(w))
    /\ WF_vars(AccStart)
    /\ WF_vars(AccRecv)
    /\ WF_vars(AccCancel)
    /\ WF_vars(AccPublish)
    /\ WF_vars(MainRecv)
    /\ WF_vars(SingleThreaded)

FairSpec == Spec /\ Fairness

(***************************************************************************)
(* retry run alone, on an f whose every call may return Ok or Err, for     *)
(* every value of its attempts argument.                                   *)
(***************************************************************************)
pipelineVars == << tree, fault, single, workers, cores, ppc, walkPos, cnt,
                   cntClosure, workQ, resultQ, printQ, ct, wpc, witem, wbm,
                   attempts, apc, hm, count, c, mpc, result, sentCounts,
                   enqueued, partials, polls, lateRecv, taken, processed,
                   delivered, gaveUp, folded >>

\* no task of the pipeline is spawned
PipelineOff ==
    /\ tree = <<>>
    /\ fault = "none"
    /\ single = FALSE
    /\ workers = 1
    /\ cores = 1
    /\ ppc = "unspawned"
    /\ apc = "unspawned"
    /\ wpc = [w \in 1..1 |-> "unspawned"]
    /\ mpc = "off"
    /\ walkPos = 1
    /\ cnt = 0
    /\ cntClosure = 0
    /\ workQ = <<>>
    /\ resultQ = <<>>
    /\ printQ = <<>>
    /\ ct = FALSE
    /\ witem = [w \in 1..1 |-> NoPath]
    /\ wbm = [w \in 1..1 |-> EmptyMap]
    /\ attempts = [w \in 1..1 |-> 0]
    /\ hm = EmptyMap
    /\ count = 0
    /\ c = <<>>
    /\ result = <<>>
    /\ sentCounts = <<>>
    /\ enqueued = 0
    /\ partials = 0
    /\ polls = [w \in 1..1 |-> 0]
    /\ lateRecv = [w \in 1..1 |-> 0]
    /\ taken = [p \in Paths |-> 0]
    /\ processed = 0
    /\ delivered = 0
    /\ gaveUp = [w \in 1..1 |-> 0]
    /\ folded = [p \in Paths |-> 0]

RetryInit ==
    /\ PipelineOff
    /\ rpc = "call"
    /\ rInit \in 0..U8Max
    /\ rAttempts = rInit
    /\ rCalls = 0
    /\ rWaits = 0
    /\ rFails = 0
    /\ injected = 0

\* f() is Ok(v): return Ok(v)
RetryCallOk ==
    /\ rpc = "call"
    /\ rCalls' = rCalls + 1
    /\ rpc' = "ok"
    /\ UNCHANGED << rInit, rAttempts, rWaits, rFails, injected >>
    /\ UNCHANGED pipelineVars

\* f() is Err(e): return Err(e) if attempts == 0, else attempts -= 1 and sleep
RetryCallErr ==
    /\ rpc = "call"
    /\ rCalls' = rCalls + 1
    /\ rFails' = rFails + 1
    /\ IF RetryGiveUp(rAttempts)
       THEN rpc' = "err" /\ rAttempts' = rAttempts
       ELSE rpc' = "sleep" /\ rAttempts' = Dec8(rAttempts)
    /\ UNCHANGED << rInit, rWaits, injected >>
    /\ UNCHANGED pipelineVars

\* tokio::time::sleep(interval).await is over: the loop calls f again
RetrySleep ==
    /\ rpc = "sleep"
    /\ rWaits' = rWaits + 1
    /\ rpc' = "call"
    /\ UNCHANGED << rInit, rAttempts, rCalls, rFails, injected >>
    /\ UNCHANGED pipelineVars

RetryNext == RetryCallOk \/ RetryCallErr \/ RetrySleep

RetrySpec == RetryInit /\ [][RetryNext]_vars

(***************************************************************************)
(* The accumulator task run alone, with any holder of a clone of to_acc    *)
(* sending it any messages.                                                *)
(***************************************************************************)
InjectedMaps == { "alice" :> 1, ("bob" :> 5) @@ ("alice" :> 2) }

InjectedMsgs ==
    { [type |-> "Count", n |-> i, hm |-> EmptyMap, of |-> NoPath] :
        i \in 0..MaxInjected }
    \cup { [type |-> "Blame", n |-> 0, hm |-> m, of |-> NoPath] :
        m \in InjectedMaps }

AccAloneInit ==
    /\ tree = <<>>
    /\ fault = "none"
    /\ single = FALSE
    /\ workers = 1
    /\ cores = 1
    /\ ppc = "unspawned"
    /\ apc = "queued"
    /\ wpc = [w \in 1..1 |-> "unspawned"]
    /\ mpc = "recv"
    /\ walkPos = 1
    /\ cnt = 0
    /\ cntClosure = 0
    /\ workQ = <<>>
    /\ resultQ = <<>>
    /\ printQ = <<>>
    /\ ct = FALSE
    /\ witem = [w \in 1..1 |-> NoPath]
    /\ wbm = [w \in 1..1 |-> EmptyMap]
    /\ attempts = [w \in 1..1 |-> 0]
    /\ hm = EmptyMap
    /\ count = 0
    /\ c = <<>>
    /\ result = <<>>
    /\ sentCounts = <<>>
    /\ enqueued = 0
    /\ partials = 0
    /\ polls = [w \in 1..1 |-> 0]
    /\ lateRecv = [w \in 1..1 |-> 0]
    /\ taken = [p \in Paths |-> 0]
    /\ processed = 0
    /\ delivered = 0
    /\ gaveUp = [w \in 1..1 |-> 0]
    /\ folded = [p \in Paths |-> 0]
    /\ HarnessOff

\* to_acc.send(msg) by some sender; it blocks while the queue is full
SendToAcc ==
    /\ injected < MaxInjected
    /\ ~ReceiverDropped
    /\ Len(resultQ) < AccCap
    /\ \E msg \in InjectedMsgs : resultQ' = Append(resultQ, msg)
    /\ injected' = injected + 1
    /\ UNCHANGED << tree, fault, single, workers, cores, ppc, walkPos, cnt,
                    cntClosure, workQ, printQ, ct, wpc, witem, wbm, attempts,
                    apc, hm, count, c, mpc, result, sentCounts, enqueued,
                    partials, polls, lateRecv, taken, processed, delivered,
                    gaveUp, folded, rpc, rInit, rAttempts, rCalls, rWaits,
                    rFails >>

AccAloneNext ==
    \/ SendToAcc
    \/ AccStart
    \/ AccRecv
    \/ AccCancel
    \/ AccPublish
    \/ MainRecv

AccAloneSpec == AccAloneInit /\ [][AccAloneNext]_vars

(***************************************************************************)
(* Vocabulary of the properties.                                           *)
(***************************************************************************)
\* no fault of the snapshot and no file the blame oracle fails on
FailureFree ==
    /\ fault = "none"
    /\ \A i \in DOMAIN tree : IsBlob(tree[i]) => tree[i].blameOk

\* the accumulator has left its loop
AccTerminated == apc \in {"publish", "done"}

\* the concurrent run has returned its table to the caller
Published == ~single /\ mpc = "returned"

\* the mapping a returned table stands for
TallyOf(blames) ==
    [a \in { blames[i].author : i \in DOMAIN blames } |->
        blames[CHOOSE i \in DOMAIN blames : blames[i].author = a].lines]

\* lines of author a in the first n entries of the snapshot
RECURSIVE LinesUpTo(_, _)
LinesUpTo(a, n) ==
    IF n = 0 THEN 0
    ELSE LinesUpTo(a, n - 1)
         + (IF IsBlob(tree[n]) THEN Get(tree[n].blame, a) ELSE 0)

\* per author, the sum of the author's lines over all files of the snapshot
TrueTally ==
    [a \in UNION { DOMAIN tree[i].blame : i \in DOMAIN tree } |->
        LinesUpTo(a, Len(tree))]

(***************************************************************************)
(* C1: when the accumulator terminates, the number of Partial (Blame)      *)
(* messages it has folded equals the value the Count message carried.      *)
(***************************************************************************)
C1_PartialsEqualCount ==
    AccTerminated => (c # <<>> /\ partials = c[1])

(***************************************************************************)
(* C2: the table the concurrent run publishes maps each author to the sum  *)
(* of the author's lines over all files of the snapshot, and holds no      *)
(* other author.                                                           *)
(***************************************************************************)
C2_TallyIsSumOverAllFiles ==
    (Published /\ FailureFree) => TallyOf(result) = TrueTally

(***************************************************************************)
(* C3: on a snapshot all of whose blames succeed, the concurrent run       *)
(* returns the tally the sequential run folds from the same snapshot.      *)
(***************************************************************************)
C3_SameTallyAsSequential ==
    (Published /\ FailureFree) =>
        /\ DOMAIN TallyOf(result) = DOMAIN FoldFiles(Files, EmptyMap)
        /\ \A a \in DOMAIN TallyOf(result) :
              TallyOf(result)[a] = FoldFiles(Files, EmptyMap)[a]

(***************************************************************************)
(* C4: every adjacent pair (a, b) of a returned table has                  *)
(* a.lines >= b.lines, and a.author <= b.author when the lines are equal.  *)
(***************************************************************************)
C4_SortContract ==
    mpc = "returned" =>
        \A i \in 1..(Len(result) - 1) :
            /\ result[i].lines >= result[i + 1].lines
            /\ result[i].lines = result[i + 1].lines
                  => AuthorLeq(result[i].author, result[i + 1].author)

(***************************************************************************)
(* C5: the Count message carries the number of blob entries the walk       *)
(* delivered to the sink: Count(N) for a snapshot with N files.            *)
(***************************************************************************)
C5_CountIsNumberOfFiles ==
    sentCounts # <<>> =>
        /\ sentCounts[1] = enqueued
        /\ sentCounts[1] = Len(Files)

(***************************************************************************)
(* C6: the producer sends at most one Count, sends it only when the walk   *)
(* is over and every file of the snapshot is enqueued on the work queue,   *)
(* and has sent exactly one when its task ends.                            *)
(***************************************************************************)
C6_OneCountAfterWalk ==
    /\ Len(sentCounts) <= 1
    /\ sentCounts # <<>> => (walkPos > Len(tree) /\ enqueued = Len(Files))
    /\ ppc = "done" => Len(sentCounts) = 1

\* the producer was held up by the full work queue, enqueued three files
\* and then sent its Count
C6_Witness ==
    /\ ppc = "done"
    /\ Len(sentCounts) = 1
    /\ enqueued = 3
    /\ enqueued > PoolCap

(***************************************************************************)
(* C7: a concurrent run without failures eventually publishes its table.   *)
(***************************************************************************)
C7_EventuallyPublished ==
    (~single /\ FailureFree) ~> Published

(***************************************************************************)
(* C8: once the flag is set a worker polls it at most once more and then   *)
(* is stopped, and it receives at most one more path: the one whose        *)
(* receive was under way when the flag was set.                            *)
(***************************************************************************)
C8_CancellationPropagates ==
    \A w \in Workers :
        /\ polls[w] <= 1
        /\ lateRecv[w] <= 1
        /\ polls[w] = 1 => wpc[w] = "done"

\* a worker took a path after the flag was set, and stopped at its next poll
C8_Witness ==
    \E w \in Workers : lateRecv[w] = 1 /\ polls[w] = 1 /\ wpc[w] = "done"

(***************************************************************************)
(* C9: a blame failure on one file ends neither the worker that met it nor *)
(* the run.                                                                *)
(***************************************************************************)
C9_BlameErrorContained ==
    /\ mpc # "panicked"
    /\ \A w \in Workers :
          (witem[w] # NoPath /\ ~BlameOk(witem[w])) => wpc[w] # "panicked"

(***************************************************************************)
(* C10: when the producer fails on the snapshot, no table is published     *)
(* and the caller eventually gets an error back.                           *)
(***************************************************************************)
C10_ProducerFailureIsFatal ==
    /\ [](ppc = "panicked" => (printQ = <<>> /\ mpc # "returned"))
    /\ (ppc = "panicked") ~> (mpc = "failed")

InWorkQ(p) == \E i \in DOMAIN workQ : workQ[i] = p

C12_EachItemToOneWorker ==
    /\ [](\A p \in Paths : taken[p] <= 1)
    /\ \A p \in Paths \ {NoPath} :
          (FailureFree /\ InWorkQ(p)) ~> (taken[p] = 1 \/ ct)

(***************************************************************************)
(* C13: the flag is set and a table published only once the Count has been *)
(* received, and then the count of consumed Partials equals the expected   *)
(* total.                                                                  *)
(***************************************************************************)
C13_TerminatesAtExpectedTotal ==
    (ct \/ printQ # <<>> \/ Published) =>
        /\ c # <<>>
        /\ count = partials
        /\ count = c[1]

(***************************************************************************)
(* C14: a worker whose send finds the result queue full is not blocked:    *)
(* the attempt fails, and the worker retries or gives up.                  *)
(***************************************************************************)
C14_FullQueueSendFails ==
    \A w \in Workers :
        (wpc[w] = "send" /\ Len(resultQ) >= AccCap /\ ~ReceiverDropped) =>
            ENABLED (WorkerSendRetry(w) \/ WorkerSendGiveUp(w))

(***************************************************************************)
(* C15: no Partial is duplicated or made up: every path is folded at most  *)
(* once and only after a worker received it, the tally is the fold of the  *)
(* maps of the folded paths and never above the true sum of any author,    *)
(* and every map a worker produced is delivered, given up, or still being  *)
(* delivered.                                                              *)
(***************************************************************************)
RECURSIVE SumOver(_, _)
SumOver(f, n) == IF n = 0 THEN 0 ELSE f[n] + SumOver(f, n - 1)

\* workers inside retry
InFlight == Cardinality({ w \in Workers : wpc[w] \in {"send", "sleep"} })

IsFolded(p) == folded[p] > 0

C16_WorkersStopAfterCancel ==
    \A w \in 1..MaxWorkers :
        (w \in Workers /\ ct /\ OnThread(wpc[w]))
            ~> (w \in Workers /\ wpc[w] = "done")

C18_AtMostAttemptsCalls ==
    /\ rCalls <= rInit
    /\ rpc = "ok" => rFails = rCalls - 1
    /\ rpc \in {"ok", "err", "sleep"} => rWaits = rCalls - 1

(***************************************************************************)
(* C18, amended: f is called at most attempts + 1 times; retry returns Ok  *)
(* at the first call that succeeds, every call before it having failed,    *)
(* and returns Err exactly when call attempts + 1 has failed; there is one *)
(* wait between consecutive calls, so at most `attempts` waits.            *)
(***************************************************************************)
C18_AtMostAttemptsPlusOneCalls ==
    /\ rCalls <= rInit + 1
    /\ rWaits <= rInit
    /\ rpc = "ok" => rFails = rCalls - 1
    /\ rpc = "err" => (rFails = rCalls /\ rCalls = rInit + 1)
    /\ rpc = "call" => (rWaits = rCalls /\ rFails = rCalls)
    /\ rpc \in {"ok", "err", "sleep"} => rWaits = rCalls - 1

\* with the worker's attempts, f failed 20 times and succeeded at call 21
C18_Witness ==
    /\ rInit = WorkerAttempts
    /\ rpc = "ok"
    /\ rCalls = WorkerAttempts + 1
    /\ rWaits = WorkerAttempts

C20_AttemptsNeverBelowZero ==
    /\ rAttempts \in 0..rInit
    /\ rAttempts = rInit - rFails + (IF rpc = "err" THEN 1 ELSE 0)
    /\ rInit = 0 => rpc \in {"call", "ok", "err"}
    /\ (rInit = 0 /\ rpc = "err") => (rCalls = 1 /\ rWaits = 0)

\* from 255 the counter came down to 0 and retry gave up
C20_Witness ==
    /\ rInit = U8Max
    /\ rpc = "err"
    /\ rAttempts = 0
    /\ rFails = U8Max + 1

=============================================================================
